---- MODULE Spec2Model ----
(***************************************************************************)
(* Model of esphome/core/helpers.h: the fixed-width byte-order codec, the  *)
(* hex parser front ends and ExternalRAMAllocator.                         *)
(*                                                                         *)
(* An unsigned integer of type T (sizeof(T) = W) is a sequence of W limbs  *)
(* of 8 bits, limb 1 the least significant: its value is                   *)
(* SUM v[k] * 256^(k-1).  Shifts, masks and ORs are computed on the limbs, *)
(* so 32 and 64 bit values keep their width.  A byte array is a sequence   *)
(* of bytes, element 1 being C index 0.                                    *)
(***************************************************************************)
EXTENDS Integers, Sequences, FiniteSets, TLC

VARIABLES
    hostLE,   \* TRUE when __BYTE_ORDER__ == __ORDER_LITTLE_ENDIAN__
    cpc,      \* codec: position of the codec caller
    W,        \* codec: sizeof(T) of the instantiation
    bytes,    \* codec: the input byte array
    val,      \* codec: the integer currently held
    x,        \* codec: the integer held before the last conversion
    outb,     \* codec: the byte array returned by decode_value
    hpc,      \* hex: position of the parse_hex caller
    hT,       \* hex: sizeof(T) of the typed overload
    text,     \* hex: the characters of str
    count,    \* hex: number of bytes requested
    data0,    \* hex: the output array before the call
    data,     \* hex: the output array after the call
    ret,      \* hex: the value returned
    apc,      \* allocator: "idle", "run" or "aborted"
    useEsp32, \* allocator: USE_ESP32 defined
    flags,    \* allocator: flags_
    spiFree,  \* allocator: free bytes of the SPI RAM pool
    heapFree, \* allocator: free bytes of the internal heap
    blocks,   \* allocator: live blocks, pointer -> [pool, size]
    last,     \* allocator: record of the last call
    has_value_,  \* Deduplicator: has_value_
    last_value_, \* Deduplicator: last_value_
    dpc,      \* Deduplicator: "idle" or "run"
    dArgs,    \* Deduplicator: the arguments of the next() calls so far
    dRets,    \* Deduplicator: the values those calls returned
    dPrev,    \* Deduplicator: the fields before the last next() call
    dQuery    \* Deduplicator: the last has_value() result and the calls before it

codecVars == <<cpc, W, bytes, val, x, outb>>
hexVars == <<hpc, hT, text, count, data0, data, ret>>
allocVars == <<apc, useEsp32, flags, spiFree, heapFree, blocks, last>>
dedupVars == <<has_value_, last_value_, dpc, dArgs, dRets, dPrev, dQuery>>
vars == <<hostLE, codecVars, hexVars, allocVars, dedupVars>>

----------------------------------------------------------------------------
(* 8-bit arithmetic *)

RECURSIVE BitOr(_, _)
BitOr(a, b) ==
    IF a = 0 THEN b
    ELSE IF b = 0 THEN a
    ELSE (IF a % 2 = 1 \/ b % 2 = 1 THEN 1 ELSE 0) + 2 * BitOr(a \div 2, b \div 2)

RECURSIVE BitAnd(_, _)
BitAnd(a, b) ==
    IF a = 0 \/ b = 0 THEN 0
    ELSE (IF a % 2 = 1 /\ b % 2 = 1 THEN 1 ELSE 0) + 2 * BitAnd(a \div 2, b \div 2)

Widths == {1, 2, 4, 8}

RECURSIVE Zero(_)
Zero(w) == IF w = 0 THEN <<>> ELSE Append(Zero(w - 1), 0)

\* static_cast<T>(b) of a uint8_t b
Widen(b, w) == <<b>> \o Zero(w - 1)

\* v << (8 * n) in type T: the limbs shifted out at the top are lost
Shl(v, n) == SubSeq(Zero(n) \o v, 1, Len(v))

\* v >> (8 * n)
Shr(v, n) == SubSeq(v \o Zero(n), n + 1, Len(v) + n)

\* v | w
RECURSIVE Or(_, _)
Or(v, w) ==
    IF Len(v) = 0 THEN <<>>
    ELSE <<BitOr(Head(v), Head(w))>> \o Or(Tail(v), Tail(w))

\* the value of v as a number (for widths whose values TLC can hold)
RECURSIVE NatValue(_)
NatValue(v) == IF Len(v) = 0 THEN 0 ELSE v[1] + 256 * NatValue(Tail(v))

----------------------------------------------------------------------------
(* Bit manipulation *)

RECURSIVE Reverse(_)
Reverse(s) == IF Len(s) = 0 THEN <<>> ELSE Append(Reverse(Tail(s)), Head(s))

Rotate(s) == IF Len(s) = 0 THEN <<>> ELSE Append(Tail(s), Head(s))

byteswap_rot(n) == Rotate(n)

byteswap(n) == Reverse(n)

encode_uint16_swapped(msb, lsb) == Or(Shl(Widen(lsb, 2), 1), Widen(msb, 2))

encode_uint16(msb, lsb) == Or(Shl(Widen(msb, 2), 1), Widen(lsb, 2))

encode_uint32(byte1, byte2, byte3, byte4) ==
    Or(Or(Shl(Widen(byte1, 4), 3), Shl(Widen(byte2, 4), 2)),
       Or(Shl(Widen(byte3, 4), 1), Widen(byte4, 4)))

\* the loop of encode_value from index i (1-based) with accumulator v
RECURSIVE EncodeLoop(_, _, _)
EncodeLoop(b, i, v) ==
    IF i > Len(b) THEN v
    ELSE EncodeLoop(b, i + 1, Or(Shl(v, 1), Widen(b[i], Len(v))))

encode_value(w, b) == EncodeLoop(b, 1, Zero(w))

\* the loop of decode_value: i counts down from sizeof(T) to 1
RECURSIVE DecodeLoop(_, _, _)
DecodeLoop(v, i, r) ==
    IF i = 0 THEN r
    ELSE DecodeLoop(Shr(v, 1), i - 1, [r EXCEPT ![i] = BitAnd(v[1], 255)])

RECURSIVE DecodeLoopUp(_, _, _)
DecodeLoopUp(v, i, r) ==
    IF i > Len(r) THEN r
    ELSE DecodeLoopUp(Shr(v, 1), i + 1, [r EXCEPT ![i] = BitAnd(v[1], 255)])

decode_value_lsb_first(v) == DecodeLoopUp(v, 1, Zero(Len(v)))

decode_value(v) == DecodeLoop(v, Len(v), Zero(Len(v)))

convert_big_endian_identity(le, v) == v

convert_big_endian(le, v) == IF le THEN byteswap(v) ELSE v

----------------------------------------------------------------------------
(* Parsing *)

HexDigits == <<"0", "1", "2", "3", "4", "5", "6", "7", "8", "9",
               "a", "b", "c", "d", "e", "f">>

IsHex(c) == \E i \in 1..16 : HexDigits[i] = c

HexVal(c) == (CHOOSE i \in 1..16 : HexDigits[i] = c) - 1

Min(a, b) == IF a < b THEN a ELSE b

\* The loop of the buffer form: k characters are consumed so far, the next one
\* lands on nibble i (0-based) of the array d, and first is the nibble the first
\* character landed on.  A character on an even nibble starts its byte; one on an
\* odd nibble completes it, the byte's upper half being the pad digit '0' when
\* this is the first character.
RECURSIVE ParseLoopStale(_, _, _, _, _, _)
ParseLoopStale(str, chars, k, i, first, d) ==
    IF k >= chars \/ ~IsHex(str[k + 1]) THEN [n |-> k, data |-> d]
    ELSE LET v == HexVal(str[k + 1])
             j == (i \div 2) + 1
             b == IF i % 2 = 0 THEN 16 * v ELSE BitOr(d[j], v)
         IN ParseLoopStale(str, chars, k + 1, i + 1, first, [d EXCEPT ![j] = b])

RECURSIVE ParseLoop(_, _, _, _, _, _)
ParseLoop(str, chars, k, i, first, d) ==
    IF k >= chars \/ ~IsHex(str[k + 1]) THEN [n |-> k, data |-> d]
    ELSE LET v == HexVal(str[k + 1])
             j == (i \div 2) + 1
             b == IF i % 2 = 0 THEN 16 * v
                  ELSE IF i = first THEN v
                  ELSE BitOr(d[j], v)
         IN ParseLoop(str, chars, k + 1, i + 1, first, [d EXCEPT ![j] = b])

parse_hex_stale(str, len, d, cnt) ==
    LET chars == Min(len, 2 * cnt)
    IN ParseLoopStale(str, chars, 0, 2 * cnt - chars, 2 * cnt - chars, d)

\* size_t parse_hex(const char *str, size_t len, uint8_t *data, size_t count):
\* [n |-> the value returned, data |-> the array afterwards]
parse_hex(str, len, d, cnt) ==
    LET chars == Min(len, 2 * cnt)
    IN ParseLoop(str, chars, 0, 2 * cnt - chars, 2 * cnt - chars, d)

\* bool parse_hex(const char *str, uint8_t *data, size_t count), and the
\* std::string form: [ok |-> the value returned, data |-> the array afterwards]
parse_hex_strict_half(str, d, cnt) ==
    LET r == parse_hex(str, Len(str), d, cnt)
    IN [ok |-> (r.n = cnt), data |-> r.data]

parse_hex_strict(str, d, cnt) ==
    LET r == parse_hex(str, Len(str), d, cnt)
    IN [ok |-> (r.n = 2 * cnt), data |-> r.data]

\* std::vector<uint8_t>::resize(count)
Resize(v, cnt) == SubSeq(v \o Zero(cnt), 1, cnt)

\* bool parse_hex(const char *str, std::vector<uint8_t> &data, size_t count)
parse_hex_vector(str, v, cnt) ==
    LET r == parse_hex(str, Len(str), Resize(v, cnt), cnt)
    IN [ok |-> (r.n = 2 * cnt), data |-> r.data]

\* the object representation of an integer: element 1 is the lowest address
ValToMem(le, v) == IF le THEN v ELSE Reverse(v)

MemToVal(le, m) == IF le THEN m ELSE Reverse(m)

Absent == [present |-> FALSE, value |-> <<>>]

parse_hex_typed_no_limit(le, w, str, len) ==
    LET r == parse_hex(str, len, ValToMem(le, Zero(w)), w)
    IN IF r.n = 0 THEN Absent
       ELSE [present |-> TRUE, value |-> convert_big_endian(le, MemToVal(le, r.data))]

\* template<typename T> optional<T> parse_hex(const char *str, size_t len)
parse_hex_typed(le, w, str, len) ==
    LET r == parse_hex(str, len, ValToMem(le, Zero(w)), w)
    IN IF len > 2 * w \/ r.n = 0 THEN Absent
       ELSE [present |-> TRUE, value |-> convert_big_endian(le, MemToVal(le, r.data))]

----------------------------------------------------------------------------
(* Memory management: ExternalRAMAllocator<T> *)

NONE == 0
REFUSE_INTERNAL == 1
ALLOW_FAILURE == 2

FlagValues == {NONE, REFUSE_INTERNAL, ALLOW_FAILURE, BitOr(REFUSE_INTERNAL, ALLOW_FAILURE)}

SizeofT == 2

MaxN == 2
PoolCap == 6
MaxBlocks == 3

Null == 0
Pointers == 1..MaxBlocks

NoBlock == [pool |-> "none", size |-> 0]

Live(b, p) == b[p].pool # "none"

\* the address handed out by a successful platform allocation
Fresh(b) == CHOOSE p \in Pointers : ~Live(b, p) /\ \A q \in Pointers : q < p => Live(b, q)

\* The control flow of allocate(n).  spiOk and heapOk are the answers the platform
\* gives (or would give) to heap_caps_malloc(size, MALLOC_CAP_SPIRAM) and
\* malloc(size).  tried lists the platform calls made, pool is where ptr points
\* ("none" for nullptr), abort tells whether abort() is reached.
allocate_ignore_refuse(esp32, fl, n, spiOk, heapOk) ==
    LET p1 == IF esp32 /\ spiOk THEN "spiram" ELSE "none"
        t1 == IF esp32 THEN <<"spiram">> ELSE <<>>
        tryHeap == p1 = "none"
        p2 == IF tryHeap THEN (IF heapOk THEN "heap" ELSE "none") ELSE p1
        t2 == IF tryHeap THEN Append(t1, "heap") ELSE t1
    IN [size |-> n * SizeofT, tried |-> t2, pool |-> p2,
        abort |-> (p2 = "none" /\ BitAnd(fl, ALLOW_FAILURE) = 0)]

allocate_no_abort(esp32, fl, n, spiOk, heapOk) ==
    LET p1 == IF esp32 /\ spiOk THEN "spiram" ELSE "none"
        t1 == IF esp32 THEN <<"spiram">> ELSE <<>>
        tryHeap == p1 = "none" /\ BitAnd(fl, REFUSE_INTERNAL) = 0
        p2 == IF tryHeap THEN (IF heapOk THEN "heap" ELSE "none") ELSE p1
        t2 == IF tryHeap THEN Append(t1, "heap") ELSE t1
    IN [size |-> n * SizeofT, tried |-> t2, pool |-> p2, abort |-> FALSE]

allocate_always_spiram(esp32, fl, n, spiOk, heapOk) ==
    LET p1 == IF spiOk THEN "spiram" ELSE "none"
        t1 == <<"spiram">>
        tryHeap == p1 = "none" /\ BitAnd(fl, REFUSE_INTERNAL) = 0
        p2 == IF tryHeap THEN (IF heapOk THEN "heap" ELSE "none") ELSE p1
        t2 == IF tryHeap THEN Append(t1, "heap") ELSE t1
    IN [size |-> n * SizeofT, tried |-> t2, pool |-> p2,
        abort |-> (p2 = "none" /\ BitAnd(fl, ALLOW_FAILURE) = 0)]

allocate(esp32, fl, n, spiOk, heapOk) ==
    LET p1 == IF esp32 /\ spiOk THEN "spiram" ELSE "none"
        t1 == IF esp32 THEN <<"spiram">> ELSE <<>>
        tryHeap == p1 = "none" /\ BitAnd(fl, REFUSE_INTERNAL) = 0
        p2 == IF tryHeap THEN (IF heapOk THEN "heap" ELSE "none") ELSE p1
        t2 == IF tryHeap THEN Append(t1, "heap") ELSE t1
    IN [size |-> n * SizeofT, tried |-> t2, pool |-> p2,
        abort |-> (p2 = "none" /\ BitAnd(fl, ALLOW_FAILURE) = 0)]

\* free(p): the state of the platform's pools and blocks afterwards
deallocate_heap_only(b, spi, heap, p) ==
    IF b[p].pool = "heap"
    THEN [blocks |-> [b EXCEPT ![p] = NoBlock], spi |-> spi, heap |-> heap + b[p].size]
    ELSE [blocks |-> b, spi |-> spi, heap |-> heap]

deallocate(b, spi, heap, p) ==
    [blocks |-> [b EXCEPT ![p] = NoBlock],
     spi |-> IF b[p].pool = "spiram" THEN spi + b[p].size ELSE spi,
     heap |-> IF b[p].pool = "heap" THEN heap + b[p].size ELSE heap]

----------------------------------------------------------------------------
(* Deduplicator<T> *)

\* T{}: the value last_value_ is initialised with
DefaultValue == 0

\* bool next(T value): [ret |-> the value returned, has |-> has_value_ and
\* last |-> last_value_ afterwards]
next_no_has_check(has, lastv, value) ==
    IF lastv = value THEN [ret |-> FALSE, has |-> has, last |-> lastv]
    ELSE [ret |-> TRUE, has |-> TRUE, last |-> value]

next(has, lastv, value) ==
    IF has /\ lastv = value THEN [ret |-> FALSE, has |-> has, last |-> lastv]
    ELSE [ret |-> TRUE, has |-> TRUE, last |-> value]

\* bool has_value() const
has_value(has) == has

----------------------------------------------------------------------------
(* Inputs *)

MaxCalls == 4
MaxValue == 2

\* the values of T the arguments of next() are drawn from
Values == 0..MaxValue

MaxTextLen == 4
MaxCount == 2

\* the bytes the codec inputs are drawn from, fewer for the wider types
ByteSamples(w) ==
    CASE w = 1 -> 0..255
      [] w = 2 -> {0, 1, 18, 52, 127, 128, 171, 205, 255}
      [] w = 4 -> {0, 1, 2, 3, 4, 128, 255}
      [] OTHER -> {0, 90, 255}

\* the characters the texts are drawn from: hex digits and one that is none
Alphabet == {"a", "b", "c", "d", "g"}

Texts == UNION {[1..n -> Alphabet] : n \in 0..MaxTextLen}

\* the previous contents of an output array
Fill == {0, 255}

Buffers(n) == [1..n -> Fill]

----------------------------------------------------------------------------
(* Idle components *)

CodecIdle ==
    /\ cpc = "idle" /\ W = 1 /\ bytes = <<>> /\ val = <<>> /\ x = <<>> /\ outb = <<>>

HexIdle ==
    /\ hpc = "idle" /\ hT = 1 /\ text = <<>> /\ count = 0
    /\ data0 = <<>> /\ data = <<>> /\ ret = 0

NoCall == [op |-> "none", n |-> 0, spiOk |-> FALSE, heapOk |-> FALSE,
           tried |-> <<>>, ptr |-> Null, returned |-> FALSE]

AllocIdle ==
    /\ apc = "idle" /\ useEsp32 = FALSE /\ flags = NONE /\ spiFree = 0
    /\ heapFree = 0 /\ blocks = [p \in Pointers |-> NoBlock] /\ last = NoCall

NoQuery == [asked |-> FALSE, calls |-> 0, value |-> FALSE]

DedupIdle ==
    /\ dpc = "idle" /\ has_value_ = FALSE /\ last_value_ = DefaultValue
    /\ dArgs = <<>> /\ dRets = <<>>
    /\ dPrev = [has |-> FALSE, last |-> DefaultValue] /\ dQuery = NoQuery

----------------------------------------------------------------------------
(* Codec callers *)

CodecInit ==
    /\ cpc = "start"
    /\ W \in Widths
    /\ bytes \in [1..W -> ByteSamples(W)]
    /\ val = Zero(W) /\ x = Zero(W) /\ outb = <<>>

EncodeValue ==
    /\ cpc = "start"
    /\ val' = encode_value(W, bytes)
    /\ cpc' = "encoded"
    /\ UNCHANGED <<hostLE, W, bytes, x, outb, hexVars, allocVars, dedupVars>>

DecodeValue ==
    /\ cpc = "encoded"
    /\ outb' = decode_value(val)
    /\ cpc' = "decoded"
    /\ UNCHANGED <<hostLE, W, bytes, val, x, hexVars, allocVars, dedupVars>>

\* encode_value applied to the array decode_value returned
ReEncodeValue ==
    /\ cpc = "decoded"
    /\ x' = val
    /\ val' = encode_value(W, outb)
    /\ cpc' = "reencoded"
    /\ UNCHANGED <<hostLE, W, bytes, outb, hexVars, allocVars, dedupVars>>

ConvertBigEndian ==
    /\ cpc \in {"encoded", "converted"}
    /\ x' = IF cpc = "encoded" THEN val ELSE x
    /\ val' = convert_big_endian(hostLE, val)
    /\ cpc' = IF cpc = "encoded" THEN "converted" ELSE "converted2"
    /\ UNCHANGED <<hostLE, W, bytes, outb, hexVars, allocVars, dedupVars>>

EncodeUint16 ==
    /\ cpc = "start" /\ W = 2
    /\ val' = encode_uint16(bytes[1], bytes[2])
    /\ cpc' = "uint16"
    /\ UNCHANGED <<hostLE, W, bytes, x, outb, hexVars, allocVars, dedupVars>>

EncodeUint32 ==
    /\ cpc = "start" /\ W = 4
    /\ val' = encode_uint32(bytes[1], bytes[2], bytes[3], bytes[4])
    /\ cpc' = "uint32"
    /\ UNCHANGED <<hostLE, W, bytes, x, outb, hexVars, allocVars, dedupVars>>

CodecNext ==
    \/ EncodeValue
    \/ DecodeValue
    \/ ReEncodeValue
    \/ ConvertBigEndian
    \/ EncodeUint16
    \/ EncodeUint32

----------------------------------------------------------------------------
(* parse_hex callers *)

HexInit ==
    /\ hpc = "start"
    /\ text \in Texts
    /\ hT = 1 /\ count = 0 /\ data0 = <<>> /\ data = <<>> /\ ret = 0

ParseHexBuffer ==
    /\ hpc = "start"
    /\ \E cnt \in 0..MaxCount : \E d \in Buffers(cnt) :
         LET r == parse_hex(text, Len(text), d, cnt)
         IN /\ count' = cnt
            /\ data0' = d
            /\ data' = r.data
            /\ ret' = r.n
    /\ hpc' = "buffer"
    /\ UNCHANGED <<hostLE, hT, text, codecVars, allocVars, dedupVars>>

ParseHexStrict ==
    /\ hpc = "start"
    /\ \E cnt \in 0..MaxCount : \E d \in Buffers(cnt) :
         LET r == parse_hex_strict(text, d, cnt)
         IN /\ count' = cnt
            /\ data0' = d
            /\ data' = r.data
            /\ ret' = r.ok
    /\ hpc' = "strict"
    /\ UNCHANGED <<hostLE, hT, text, codecVars, allocVars, dedupVars>>

ParseHexVector ==
    /\ hpc = "start"
    /\ \E cnt \in 0..MaxCount : \E m \in 0..MaxCount : \E d \in Buffers(m) :
         LET r == parse_hex_vector(text, d, cnt)
         IN /\ count' = cnt
            /\ data0' = d
            /\ data' = r.data
            /\ ret' = r.ok
    /\ hpc' = "vector"
    /\ UNCHANGED <<hostLE, hT, text, codecVars, allocVars, dedupVars>>

ParseHexTyped ==
    /\ hpc = "start"
    /\ \E w \in Widths :
         /\ hT' = w
         /\ ret' = parse_hex_typed(hostLE, w, text, Len(text))
    /\ hpc' = "typed"
    /\ UNCHANGED <<hostLE, text, count, data0, data, codecVars, allocVars, dedupVars>>

HexNext ==
    \/ ParseHexBuffer
    \/ ParseHexStrict
    \/ ParseHexVector
    \/ ParseHexTyped

----------------------------------------------------------------------------
(* Allocator callers *)

AllocInit ==
    /\ apc = "run"
    /\ useEsp32 \in BOOLEAN
    /\ flags \in FlagValues
    /\ spiFree \in (IF useEsp32 THEN {0, PoolCap} ELSE {0})
    /\ heapFree = PoolCap
    /\ blocks = [p \in Pointers |-> NoBlock]
    /\ last = NoCall

Allocate ==
    /\ apc = "run"
    /\ \E n \in 1..MaxN : \E spiOk \in BOOLEAN : \E heapOk \in BOOLEAN :
         LET r == allocate(useEsp32, flags, n, spiOk, heapOk)
             room == \E p \in Pointers : ~Live(blocks, p)
             ptr == IF r.pool = "none" THEN Null ELSE Fresh(blocks)
         IN /\ spiOk => (useEsp32 /\ room /\ spiFree >= n * SizeofT)
            /\ heapOk => (room /\ heapFree >= n * SizeofT)
            /\ last' = [op |-> "allocate", n |-> n, spiOk |-> spiOk, heapOk |-> heapOk,
                        tried |-> r.tried, ptr |-> IF r.abort THEN Null ELSE ptr,
                        returned |-> ~r.abort]
            /\ apc' = IF r.abort THEN "aborted" ELSE "run"
            /\ blocks' = IF r.pool = "none" THEN blocks
                         ELSE [blocks EXCEPT ![ptr] = [pool |-> r.pool, size |-> r.size]]
            /\ spiFree' = IF r.pool = "spiram" THEN spiFree - r.size ELSE spiFree
            /\ heapFree' = IF r.pool = "heap" THEN heapFree - r.size ELSE heapFree
    /\ UNCHANGED <<hostLE, useEsp32, flags, codecVars, hexVars, dedupVars>>

Deallocate ==
    /\ apc = "run"
    /\ \E p \in Pointers :
         /\ Live(blocks, p)
         /\ LET r == deallocate(blocks, spiFree, heapFree, p)
            IN /\ blocks' = r.blocks
               /\ spiFree' = r.spi
               /\ heapFree' = r.heap
         /\ last' = [op |-> "deallocate", n |-> blocks[p].size \div SizeofT,
                     spiOk |-> FALSE, heapOk |-> FALSE, tried |-> <<>>,
                     ptr |-> p, returned |-> TRUE]
    /\ UNCHANGED <<hostLE, apc, useEsp32, flags, codecVars, hexVars, dedupVars>>

AllocNext ==
    \/ Allocate
    \/ Deallocate

----------------------------------------------------------------------------
(* Deduplicator callers *)

DedupInit ==
    /\ dpc = "run" /\ has_value_ = FALSE /\ last_value_ = DefaultValue
    /\ dArgs = <<>> /\ dRets = <<>>
    /\ dPrev = [has |-> FALSE, last |-> DefaultValue] /\ dQuery = NoQuery

DedupNext ==
    /\ dpc = "run"
    /\ Len(dArgs) < MaxCalls
    /\ \E v \in Values :
         LET r == next(has_value_, last_value_, v)
         IN /\ has_value_' = r.has
            /\ last_value_' = r.last
            /\ dArgs' = Append(dArgs, v)
            /\ dRets' = Append(dRets, r.ret)
    /\ dPrev' = [has |-> has_value_, last |-> last_value_]
    /\ UNCHANGED <<hostLE, dpc, dQuery, codecVars, hexVars, allocVars>>

DedupHasValue ==
    /\ dpc = "run"
    /\ dQuery' = [asked |-> TRUE, calls |-> Len(dArgs), value |-> has_value(has_value_)]
    /\ UNCHANGED <<hostLE, has_value_, last_value_, dpc, dArgs, dRets, dPrev,
                   codecVars, hexVars, allocVars>>

DedupStep ==
    \/ DedupNext
    \/ DedupHasValue

----------------------------------------------------------------------------
(* Specifications *)

SpecCodecInit == hostLE \in BOOLEAN /\ CodecInit /\ HexIdle /\ AllocIdle /\ DedupIdle
SpecCodec == SpecCodecInit /\ [][CodecNext]_vars

SpecHexInit == hostLE \in BOOLEAN /\ CodecIdle /\ HexInit /\ AllocIdle /\ DedupIdle
SpecHex == SpecHexInit /\ [][HexNext]_vars

SpecAllocInit == hostLE = TRUE /\ CodecIdle /\ HexIdle /\ AllocInit /\ DedupIdle
SpecAlloc == SpecAllocInit /\ [][AllocNext]_vars

SpecDedupInit == hostLE = TRUE /\ CodecIdle /\ HexIdle /\ AllocIdle /\ DedupInit
SpecDedup == SpecDedupInit /\ [][DedupStep]_vars

Init == SpecCodecInit \/ SpecHexInit \/ SpecAllocInit \/ SpecDedupInit
Next == CodecNext \/ HexNext \/ AllocNext \/ DedupStep
Spec == Init /\ [][Next]_vars

----------------------------------------------------------------------------
(* Properties of the codec, checked under SpecCodec *)

\* C1: decode_value(encode_value(b)) = b for every width and byte array b,
\* encode_value puts b[0] in the most significant position, and encoding the
\* decoded array gives the integer back (the two are inverse bijections).
C1_RoundTrip ==
    /\ cpc = "encoded" => \A i \in 1..W : val[W + 1 - i] = bytes[i]
    /\ cpc = "decoded" => outb = bytes
    /\ cpc = "reencoded" => (val = x /\ outb = bytes)

C1_Witness ==
    /\ cpc = "reencoded" /\ W = 8
    /\ bytes[1] # bytes[8] /\ bytes[1] # 0 /\ bytes[8] # 0

\* C2: convert_big_endian applied twice returns the original integer on
\* little-endian hosts, where one application reverses the bytes, and on
\* big-endian hosts, where it changes nothing.
C2_Involution ==
    /\ cpc = "converted" =>
         \A k \in 1..W : val[k] = IF hostLE THEN x[W + 1 - k] ELSE x[k]
    /\ cpc = "converted2" => val = x

C2_Witness ==
    /\ cpc = "converted2" /\ hostLE /\ W = 4
    /\ x[1] # x[4] /\ x[2] # x[3]

\* C10: encode_uint16(msb, lsb) = msb * 256 + lsb and encode_uint32(b1, b2, b3, b4)
\* = b1 * 2^24 + b2 * 2^16 + b3 * 2^8 + b4 (stated on the upper and the lower 16
\* bits), and both agree with encode_value on the same bytes in the same order.
C10_EncodeUint ==
    /\ cpc = "uint16" =>
         /\ NatValue(val) = bytes[1] * 256 + bytes[2]
         /\ val = encode_value(2, bytes)
    /\ cpc = "uint32" =>
         /\ NatValue(SubSeq(val, 3, 4)) = bytes[1] * 256 + bytes[2]
         /\ NatValue(SubSeq(val, 1, 2)) = bytes[3] * 256 + bytes[4]
         /\ val = encode_value(4, bytes)

C10_Witness ==
    /\ cpc = "uint32" /\ bytes = <<1, 2, 3, 4>> /\ val = <<4, 3, 2, 1>>

----------------------------------------------------------------------------
(* Properties of parse_hex, checked under SpecHex *)

AllHex(s) == \A i \in 1..Len(s) : IsHex(s[i])

\* C6: the typed parse_hex<T>(text, len) returns a value exactly when len is
\* between 1 and 2 * sizeof(T) and all len characters are hex digits; otherwise
\* it returns the absent value.
C6_TypedAbsentOnFailure ==
    hpc = "typed" =>
        (ret.present <=> (Len(text) >= 1 /\ Len(text) <= 2 * hT /\ AllHex(text)))

\* C7: the strict forms return true exactly when the text has at least 2 * count
\* characters and its first 2 * count characters are hex digits, the array then
\* holding the count decoded bytes; the vector forms leave the vector with exactly
\* count elements whether or not the parse succeeds.
C7_StrictParse ==
    hpc \in {"strict", "vector"} =>
        /\ ret = (Len(text) >= 2 * count /\ \A i \in 1..(2 * count) : IsHex(text[i]))
        /\ ret => \A j \in 1..count :
                    data[j] = 16 * HexVal(text[2 * j - 1]) + HexVal(text[2 * j])
        /\ Len(data) = count

C7_Witness ==
    /\ hpc = "vector" /\ ret = TRUE /\ count = 2 /\ data0 = <<>>
    /\ text = <<"a", "b", "c", "d">> /\ data = <<171, 205>>

\* text padded on the left with '0' to 2 * cnt characters
Padded(s, cnt) ==
    [i \in 1..(2 * cnt) |-> IF i <= 2 * cnt - Len(s) THEN "0" ELSE s[i - (2 * cnt - Len(s))]]

\* C8: the buffer form on all-hex text shorter than 2 * out_count returns
\* text_len, writes the bytes of the text left-padded with '0' to the tail of out,
\* and leaves every leading byte no character falls on as it was.
C8_RightAligned ==
    (hpc = "buffer" /\ AllHex(text) /\ Len(text) < 2 * count) =>
        /\ ret = Len(text)
        /\ Len(data) = count
        /\ \A j \in 1..count :
             data[j] = IF 2 * j <= 2 * count - Len(text) THEN data0[j]
                       ELSE 16 * HexVal(Padded(text, count)[2 * j - 1])
                            + HexVal(Padded(text, count)[2 * j])

C8_Witness ==
    /\ hpc = "buffer" /\ text = <<"b", "c", "d">> /\ count = 2
    /\ data0 = <<255, 255>> /\ ret = 3 /\ data = <<11, 205>>

\* the bytes of text left-padded with '0' to 2 * cnt characters, first byte first
PaddedBytes(s, cnt) ==
    [j \in 1..cnt |-> 16 * HexVal(Padded(s, cnt)[2 * j - 1]) + HexVal(Padded(s, cnt)[2 * j])]

\* C11: on all-hex text of 1 to 2 * sizeof(T) characters the typed parse_hex<T>
\* returns the number the text denotes, most significant digit first: encode_value
\* of the bytes of the text left-padded with '0', on little- and big-endian hosts.
C11_TypedValue ==
    (hpc = "typed" /\ AllHex(text) /\ Len(text) >= 1 /\ Len(text) <= 2 * hT) =>
        /\ ret.present
        /\ ret.value = encode_value(hT, PaddedBytes(text, hT))

C11_Witness ==
    /\ hpc = "typed" /\ hostLE /\ hT = 2 /\ text = <<"b", "c", "d">>
    /\ ret.present /\ ret.value = <<205, 11>>

----------------------------------------------------------------------------
(* Properties of the allocator, checked under SpecAlloc *)

Refuses == BitAnd(flags, REFUSE_INTERNAL) # 0
Allows == BitAnd(flags, ALLOW_FAILURE) # 0

\* the last call was allocate and no pool the policy lets it use could serve it
NoPoolServed ==
    /\ last.op = "allocate"
    /\ ~(useEsp32 /\ last.spiOk)
    /\ ~(~Refuses /\ last.heapOk)

\* C3: when no eligible pool can serve allocate(n), it returns nullptr without
\* ending the process if ALLOW_FAILURE is set and aborts without returning if it
\* is not; so an allocate that returns without ALLOW_FAILURE never returns nullptr.
C3_FailurePolicy ==
    /\ NoPoolServed =>
         IF Allows THEN last.returned /\ last.ptr = Null /\ apc = "run"
         ELSE apc = "aborted" /\ ~last.returned
    /\ (last.op = "allocate" /\ last.returned /\ ~Allows) => last.ptr # Null

C3_Witness ==
    /\ NoPoolServed /\ useEsp32 /\ Refuses /\ ~Allows
    /\ last.heapOk /\ apc = "aborted"

\* C4: with a secondary pool, allocate tries it first; it tries the internal heap
\* exactly when the secondary pool failed and REFUSE_INTERNAL is not set; with
\* REFUSE_INTERNAL a pointer returned lies in the secondary pool.
C4_PoolOrder ==
    (useEsp32 /\ last.op = "allocate") =>
        /\ Len(last.tried) >= 1 /\ last.tried[1] = "spiram"
        /\ (\E i \in 2..Len(last.tried) : last.tried[i] = "heap")
             <=> (~last.spiOk /\ ~Refuses)
        /\ Len(last.tried) <= 2
        /\ last.spiOk => last.tried = <<"spiram">>
        /\ Refuses => last.tried = <<"spiram">>
        /\ (Refuses /\ last.ptr # Null) => blocks[last.ptr].pool = "spiram"
        /\ (last.spiOk /\ last.ptr # Null) => blocks[last.ptr].pool = "spiram"

C4_Witness ==
    /\ useEsp32 /\ last.op = "allocate" /\ Refuses /\ Allows
    /\ ~last.spiOk /\ last.heapOk /\ last.tried = <<"spiram">> /\ last.ptr = Null

\* C5 as stated: without a secondary pool, under every policy, allocate is a plain
\* allocation from the internal heap: it returns the heap's pointer whenever the
\* heap can serve the request and applies the ALLOW_FAILURE rule only when not.
C5_PlainHeapEveryPolicy ==
    (~useEsp32 /\ last.op = "allocate") =>
        /\ \A i \in 1..Len(last.tried) : last.tried[i] # "spiram"
        /\ last.heapOk =>
             (last.returned /\ last.ptr # Null /\ blocks[last.ptr].pool = "heap")
        /\ ~last.heapOk =>
             IF Allows THEN last.returned /\ last.ptr = Null /\ apc = "run"
             ELSE apc = "aborted" /\ ~last.returned

\* C5 amended: without a secondary pool allocate never tries one; without
\* REFUSE_INTERNAL it is a plain allocation from the internal heap with the
\* ALLOW_FAILURE rule applied when the heap cannot serve; with REFUSE_INTERNAL it
\* tries no pool at all and every call ends by the ALLOW_FAILURE rule.
C5_PlainHeapUnlessRefused ==
    (~useEsp32 /\ last.op = "allocate") =>
        /\ \A i \in 1..Len(last.tried) : last.tried[i] # "spiram"
        /\ (~Refuses /\ last.heapOk) =>
             /\ last.tried = <<"heap">>
             /\ last.returned /\ last.ptr # Null /\ blocks[last.ptr].pool = "heap"
        /\ (Refuses \/ ~last.heapOk) =>
             IF Allows THEN last.returned /\ last.ptr = Null /\ apc = "run"
             ELSE apc = "aborted" /\ ~last.returned
        /\ Refuses => last.tried = <<>>

C5_Witness ==
    /\ ~useEsp32 /\ last.op = "allocate" /\ Refuses /\ Allows
    /\ last.heapOk /\ last.returned /\ last.ptr = Null /\ last.tried = <<>>

\* C9: a block becomes live only by an allocate that returns it and stops being
\* live only by a deallocate of it, which gives its bytes back to the pool they
\* came from whichever pool that is; the process ends only in an allocate no
\* eligible pool could serve without ALLOW_FAILURE; once ended, nothing changes.
C9_Lifecycle ==
    [][ /\ \A p \in Pointers :
             /\ (~Live(blocks, p) /\ Live(blocks', p)) =>
                  /\ last'.op = "allocate" /\ last'.returned /\ last'.ptr = p
                  /\ blocks'[p].size = last'.n * SizeofT
                  /\ apc' = "run"
             /\ (Live(blocks, p) /\ ~Live(blocks', p)) =>
                  /\ last'.op = "deallocate" /\ last'.ptr = p
                  /\ spiFree' + heapFree' = spiFree + heapFree + blocks[p].size
                  /\ spiFree' >= spiFree /\ heapFree' >= heapFree
             /\ (Live(blocks, p) /\ Live(blocks', p)) => blocks'[p] = blocks[p]
        /\ (last'.op = "deallocate" /\ last' # last) =>
             (Live(blocks, last'.ptr) /\ ~Live(blocks', last'.ptr))
        /\ (last'.op = "allocate" /\ last'.returned /\ last'.ptr # Null /\ last' # last) =>
             (~Live(blocks, last'.ptr) /\ Live(blocks', last'.ptr))
        /\ (apc = "run" /\ apc' = "aborted") =>
             (NoPoolServed' /\ ~Allows /\ blocks' = blocks)
        /\ apc = "aborted" => UNCHANGED allocVars
      ]_vars

C9_Witness ==
    /\ apc = "run" /\ useEsp32 /\ last.op = "deallocate"
    /\ \A p \in Pointers : ~Live(blocks, p)
    /\ spiFree = PoolCap /\ heapFree = PoolCap

----------------------------------------------------------------------------
(* Properties of Deduplicator, checked under SpecDedup *)

\* C12: a next(v) call returns true exactly when it is the first call or v
\* differs from the argument of the call before it; last_value_ is always the
\* latest argument; a call that returns false changes no field; has_value() is
\* false before the first next call and true after any.
C12_Deduplicator ==
    /\ Len(dRets) = Len(dArgs)
    /\ \A i \in 1..Len(dArgs) :
         dRets[i] = (i = 1 \/ dArgs[i] # dArgs[i - 1])
    /\ Len(dArgs) = 0 => ~has_value_
    /\ Len(dArgs) > 0 => (has_value_ /\ last_value_ = dArgs[Len(dArgs)])
    /\ (Len(dArgs) > 0 /\ ~dRets[Len(dRets)]) =>
         (has_value_ = dPrev.has /\ last_value_ = dPrev.last)
    /\ dQuery.asked => (dQuery.value = (dQuery.calls > 0))

C12_Witness ==
    /\ dArgs = <<0, 0, 1>> /\ dRets = <<TRUE, FALSE, TRUE>>
    /\ dQuery.asked /\ dQuery.calls = 1 /\ dQuery.value

====
